---- MODULE Spec2Model ----
(***************************************************************************)
(* Wochenbericht export: the export worker (src/worker/app.py) and the     *)
(* timesheet computation and cell-mapping engine                           *)
(* (src/scripts/export_wochenbericht.py).                                  *)
(*                                                                         *)
(* Text is a sequence of one-character strings, so that strip, split,      *)
(* replace and the numeric parsers do what the Python code does.           *)
(* Numbers are fixed-point: a float x is stored as the integer x * Unit.   *)
(* Unit = 300 makes every minute count / 60 and every decimal with at most *)
(* two fraction digits exact, and the thresholds 6, 9.5, 0.5 and 0.75 are  *)
(* exact in binary floating point as well, so comparisons agree.           *)
(***************************************************************************)
EXTENDS Integers, Sequences, FiniteSets, TLC

Unit == 60 * 5

(***************************************************************************)
(* Python values: one record shape for all of them.                        *)
(***************************************************************************)
Val(k, s, n) == [k |-> k, s |-> s, n |-> n]
NoneV == Val("none", <<>>, 0)
AbsentV == Val("absent", <<>>, 0)
StrV(s) == Val("str", s, 0)
NumV(n) == Val("num", <<>>, n)
IntV(n) == Val("int", <<>>, n)
TimeV(m) == Val("time", <<>>, m)
DateV(ymd) == Val("date", <<>>, ymd)
FormulaV(s) == Val("formula", s, 0)

\* dict.get(key, default): the default only when the key is missing.
Get(v, default) == IF v.k = "absent" THEN default ELSE v

\* isinstance(v, (int, float))
IsNum(v) == v.k \in {"num", "int"}

\* isinstance(v, str)
IsStr(v) == v.k = "str"

\* float(v) of a number
ToFloat(v) == IF v.k = "int" THEN NumV(v.n * Unit) ELSE v

(***************************************************************************)
(* str methods                                                             *)
(***************************************************************************)
IsSpace(c) == c \in {" ", "\t", "\n"}

RECURSIVE LStrip(_)
LStrip(s) == IF s # <<>> /\ IsSpace(Head(s)) THEN LStrip(Tail(s)) ELSE s

RECURSIVE RStrip(_)
RStrip(s) ==
  IF s # <<>> /\ IsSpace(s[Len(s)]) THEN RStrip(SubSeq(s, 1, Len(s) - 1)) ELSE s

Strip(s) == RStrip(LStrip(s))

Replace(s, a, b) == [i \in 1..Len(s) |-> IF s[i] = a THEN b ELSE s[i]]

\* s.split(sep): the parts between the occurrences of the character sep
RECURSIVE SplitFrom(_, _, _)
SplitFrom(s, sep, cur) ==
  IF s = <<>> THEN <<cur>>
  ELSE IF Head(s) = sep THEN <<cur>> \o SplitFrom(Tail(s), sep, <<>>)
  ELSE SplitFrom(Tail(s), sep, Append(cur, Head(s)))

Split(s, sep) == SplitFrom(s, sep, <<>>)

UpperChars ==
  <<"A", "B", "C", "D", "E", "F", "G", "H", "I", "J", "K", "L", "M",
    "N", "O", "P", "Q", "R", "S", "T", "U", "V", "W", "X", "Y", "Z">>
LowerChars ==
  <<"a", "b", "c", "d", "e", "f", "g", "h", "i", "j", "k", "l", "m",
    "n", "o", "p", "q", "r", "s", "t", "u", "v", "w", "x", "y", "z">>

LowerChar(c) ==
  IF \E i \in 1..26 : UpperChars[i] = c
  THEN LowerChars[CHOOSE i \in 1..26 : UpperChars[i] = c]
  ELSE c

Lower(s) == [i \in 1..Len(s) |-> LowerChar(s[i])]

DigitChars == <<"0", "1", "2", "3", "4", "5", "6", "7", "8", "9">>
IsDigit(c) == \E i \in 1..10 : DigitChars[i] = c
DigitVal(c) == (CHOOSE i \in 1..10 : DigitChars[i] = c) - 1
AllDigits(s) == s # <<>> /\ \A i \in 1..Len(s) : IsDigit(s[i])

RECURSIVE DigitsVal(_)
DigitsVal(s) ==
  IF s = <<>> THEN 0
  ELSE 10 * DigitsVal(SubSeq(s, 1, Len(s) - 1)) + DigitVal(s[Len(s)])

\* str(n) of a natural number
RECURSIVE IntToStr(_)
IntToStr(n) ==
  IF n < 10 THEN <<DigitChars[n + 1]>>
  ELSE IntToStr(n \div 10) \o <<DigitChars[(n % 10) + 1]>>

HasSign(s) == s # <<>> /\ Head(s) \in {"+", "-"}
Unsigned(s) == IF HasSign(s) THEN Tail(s) ELSE s
SignOf(s) == IF s # <<>> /\ Head(s) = "-" THEN -1 ELSE 1

\* int(text): surrounding whitespace, an optional sign, decimal digits.
\* ok = FALSE is ValueError.
PyInt(s) ==
  LET Digits(sign, u) ==
        IF AllDigits(u) THEN [ok |-> TRUE, n |-> sign * DigitsVal(u)]
        ELSE [ok |-> FALSE, n |-> 0]
      Signed(t) == Digits(SignOf(t), Unsigned(t))
  IN Signed(Strip(s))

\* The fraction digits f of "i.f" in ticks, for at most two digits (the
\* precision Unit carries).
FracTicks(f) ==
  IF Len(f) = 0 THEN 0
  ELSE IF Len(f) = 1 THEN DigitVal(f[1]) * (Unit \div 10)
  ELSE DigitsVal(f) * (Unit \div 100)

\* float(text): r = "finite" with the value in ticks, "nonfinite" for nan
\* and inf, "error" for ValueError.  Decimal notation with an optional sign;
\* exponents are outside the alphabet of the inputs.
PyFloat(s) ==
  LET Error == [r |-> "error", n |-> 0]
      Value(sign, ip, fp) ==
        IF /\ ip = <<>> \/ AllDigits(ip)
           /\ fp = <<>> \/ AllDigits(fp)
           /\ ip # <<>> \/ fp # <<>>
           /\ Len(fp) <= 2
        THEN [r |-> "finite",
              n |-> sign * (DigitsVal(ip) * Unit + FracTicks(fp))]
        ELSE Error
      Parts(sign, parts) ==
        IF Len(parts) = 1 THEN Value(sign, parts[1], <<>>)
        ELSE IF Len(parts) = 2 THEN Value(sign, parts[1], parts[2])
        ELSE Error
      Number(sign, u) ==
        IF Lower(u) \in {<<"n", "a", "n">>, <<"i", "n", "f">>,
                         <<"i", "n", "f", "i", "n", "i", "t", "y">>}
        THEN [r |-> "nonfinite", n |-> 0]
        ELSE Parts(sign, Split(u, "."))
      Signed(t) == Number(SignOf(t), Unsigned(t))
  IN Signed(Strip(s))

(***************************************************************************)
(* Field normalizer                                                        *)
(***************************************************************************)
IsLeap(y) == y % 4 = 0 /\ (y % 100 # 0 \/ y % 400 = 0)

DaysInMonth(y, m) ==
  IF m = 2 THEN (IF IsLeap(y) THEN 29 ELSE 28)
  ELSE IF m \in {4, 6, 9, 11} THEN 30 ELSE 31

RECURSIVE DaysBeforeMonth(_, _)
DaysBeforeMonth(y, m) ==
  IF m = 1 THEN 0 ELSE DaysBeforeMonth(y, m - 1) + DaysInMonth(y, m - 1)

\* date.toordinal()
ToOrdinal(y, m, d) ==
  (y - 1) * 365 + ((y - 1) \div 4) - ((y - 1) \div 100) + ((y - 1) \div 400)
  + DaysBeforeMonth(y, m) + d

\* The regular expressions strptime uses for %m and %d
MonthText(p) ==
  /\ AllDigits(p)
  /\ Len(p) \in {1, 2}
  /\ DigitsVal(p) \in 1..12

DayText(p) ==
  \/ /\ AllDigits(p)
     /\ Len(p) \in {1, 2}
     /\ DigitsVal(p) \in 1..31
  \/ /\ Len(p) = 2
     /\ p[1] = " "
     /\ IsDigit(p[2])
     /\ p[2] # "0"

DayNum(p) == IF p[1] = " " THEN DigitVal(p[2]) ELSE DigitsVal(p)

\* datetime.strptime(value, "%Y-%m-%d").date(): ok = FALSE is the exception
\* (ValueError for text that is no date, TypeError for a value that is no
\* text).  ymd packs year, month and day as y * 10000 + m * 100 + d.
parse_iso_date(value) ==
  LET NoDate == [ok |-> FALSE, y |-> 0, m |-> 0, d |-> 0]
      Date(y, m, d) ==
        IF y >= 1 /\ d <= DaysInMonth(y, m)
        THEN [ok |-> TRUE, y |-> y, m |-> m, d |-> d]
        ELSE NoDate
      Parts(parts) ==
        IF /\ Len(parts) = 3
           /\ AllDigits(parts[1])
           /\ Len(parts[1]) = 4
           /\ MonthText(parts[2])
           /\ DayText(parts[3])
        THEN Date(DigitsVal(parts[1]), DigitsVal(parts[2]), DayNum(parts[3]))
        ELSE NoDate
  IN IF IsStr(value) THEN Parts(Split(value.s, "-")) ELSE NoDate

\* date.isoweekday(): toordinal() % 7 or 7
isoweekday(dt) ==
  LET OrSeven(r) == IF r = 0 THEN 7 ELSE r
  IN OrSeven(ToOrdinal(dt.y, dt.m, dt.d) % 7)

DateOf(dt) == DateV(dt.y * 10000 + dt.m * 100 + dt.d)

parse_time_value(value) ==
  IF ~IsStr(value) \/ value.s = <<>> THEN NoneV
  ELSE LET Time(hh, mm) ==
             IF hh.ok /\ mm.ok /\ hh.n \in 0..23 /\ mm.n \in 0..59
             THEN TimeV(hh.n * 60 + mm.n)
             ELSE NoneV
           Parts(parts) ==
             IF Len(parts) = 2 THEN Time(PyInt(parts[1]), PyInt(parts[2]))
             ELSE NoneV
       IN Parts(Split(value.s, ":"))

parse_decimal(value) ==
  IF value.k = "none" THEN NoneV
  ELSE IF ~IsStr(value) THEN value
  ELSE LET Parsed(stripped, num) ==
             IF num.r = "finite" THEN NumV(num.n) ELSE StrV(stripped)
           Number(stripped, txt) ==
             IF txt = <<>> THEN NoneV ELSE Parsed(stripped, PyFloat(txt))
           Stripped(stripped) == Number(stripped, Replace(stripped, ",", "."))
       IN Stripped(Strip(value.s))

(***************************************************************************)
(* Hour/break resolver                                                     *)
(***************************************************************************)
\* gross_hours without the wrap across midnight
gross_hours_no_wrap(start, end) ==
  IF start.k = "none" \/ end.k = "none" THEN NoneV
  ELSE NumV(((end.n - start.n) * Unit) \div 60)

gross_hours(start, end) ==
  IF start.k = "none" \/ end.k = "none" THEN NoneV
  ELSE LET diff == end.n - start.n
       IN NumV(((IF diff < 0 THEN diff + 24 * 60 ELSE diff) * Unit) \div 60)

PauseLong == (75 * Unit) \div 100
PauseShort == (5 * Unit) \div 10

auto_pause_hours(hours) ==
  IF hours.k = "none" THEN NoneV
  ELSE IF hours.n * 10 > 95 * Unit THEN NumV(PauseLong)
  ELSE IF hours.n > 6 * Unit THEN NumV(PauseShort)
  ELSE NumV(0)

\* the candidates tried from the largest down
PauseCandidatesDescending == <<PauseLong, PauseShort, 0>>

\* the candidates of the for loop, in its order
PauseCandidates == <<0, PauseShort, PauseLong>>

RECURSIVE InferFrom(_, _)
InferFrom(net_hours, i) ==
  IF i > Len(PauseCandidates) THEN NoneV
  ELSE IF auto_pause_hours(NumV(net_hours.n + PauseCandidates[i]))
          = NumV(PauseCandidates[i])
  THEN NumV(PauseCandidates[i])
  ELSE InferFrom(net_hours, i + 1)

infer_pause_from_net_hours(net_hours) ==
  IF net_hours.k = "none" THEN NoneV ELSE InferFrom(net_hours, 1)

\* round(x, 2): to the nearest hundredth (no value of the model is a tie)
Round2(n) ==
  LET q == Unit \div 100 IN q * ((2 * n + q) \div (2 * q))


Sentinel ==
  <<"_", "_", "A", "U", "T", "O", "_", "F", "R", "O", "M", "_",
    "T", "I", "M", "E", "_", "_">>

EmptyStr == StrV(<<>>)

\* x or 0.0
OrZero(v) == IF v.k = "none" \/ (IsNum(v) /\ v.n = 0) THEN NumV(0) ELSE v

\* compute_day_cell_value with the times taking precedence over the override
compute_day_cell_value_times_first(row) ==
  LET FromOverride(override, override_str) ==
        IF IsStr(override) /\ override_str # <<>> /\ override_str # Sentinel
        THEN parse_decimal(StrV(override_str))
        ELSE IF ~IsStr(override) /\ override.k # "none" THEN override
        ELSE NoneV
      Net(gross, pause_override, override) ==
        IF gross.k = "none" THEN FromOverride(override, Strip(override.s))
        ELSE IF IsNum(pause_override)
        THEN NumV(Round2(gross.n - ToFloat(pause_override).n))
        ELSE NumV(Round2(gross.n - OrZero(auto_pause_hours(gross)).n))
  IN Net(gross_hours(parse_time_value(Get(row.beginn, EmptyStr)),
                     parse_time_value(Get(row.ende, EmptyStr))),
         parse_decimal(Get(row.pauseOverride, EmptyStr)),
         Get(row.dayHoursOverride, NoneV))

compute_day_cell_value(row) ==
  LET Net(gross, pause_override) ==
        IF gross.k = "none" THEN NoneV
        ELSE IF IsNum(pause_override)
        THEN NumV(Round2(gross.n - ToFloat(pause_override).n))
        ELSE NumV(Round2(gross.n - OrZero(auto_pause_hours(gross)).n))
      Resolve(override, override_str, start, end) ==
        IF IsStr(override) /\ override_str # <<>> /\ override_str # Sentinel
        THEN parse_decimal(StrV(override_str))
        ELSE IF ~IsStr(override) /\ override.k # "none" THEN override
        ELSE Net(gross_hours(start, end),
                 parse_decimal(Get(row.pauseOverride, EmptyStr)))
      Override(override) ==
        Resolve(override, Strip(override.s),
                parse_time_value(Get(row.beginn, EmptyStr)),
                parse_time_value(Get(row.ende, EmptyStr)))
  IN Override(Get(row.dayHoursOverride, NoneV))

(***************************************************************************)
(* Grid writer.  A sheet maps a row number to the values of its columns.   *)
(* Each function of the script yields the assignments ws[..] = v it        *)
(* performs, in order; Apply performs them.                                *)
(***************************************************************************)
WEEKDAY_COLUMNS == <<"H", "I", "J", "K", "L", "M", "N">>
DATA_ROW_START == 10
DATA_ROW_END == 49
SheetName == "Wochenbericht"

AncillaryColumns == <<"Q", "R", "S", "T", "U", "V", "W", "X">>

SeqRange(s) == {s[i] : i \in 1..Len(s)}

\* the columns and rows of the sheet the model keeps: the header block, the
\* weekday marker row and the data rows, with one row of margin after the
\* last data row
Columns ==
  {"A", "D", "E", "F", "G", "O", "P"} \cup SeqRange(WEEKDAY_COLUMNS)
    \cup SeqRange(AncillaryColumns)

SheetRows ==
  {1, 3, 5, 6} \cup ((DATA_ROW_START - 1)..(DATA_ROW_END + 1))

Asg(col, row, v) == [col |-> col, row |-> row, v |-> v]

\* the assignments of asg that fall into row r, performed on its values
RECURSIVE ApplyRow(_, _, _)
ApplyRow(rowvals, asg, r) ==
  IF asg = <<>> THEN rowvals
  ELSE IF Head(asg).row = r /\ Head(asg).col \in DOMAIN rowvals
  THEN ApplyRow([rowvals EXCEPT ![Head(asg).col] = Head(asg).v], Tail(asg), r)
  ELSE ApplyRow(rowvals, Tail(asg), r)

Apply(ws, asg) ==
  [r \in DOMAIN ws |->
     IF \E i \in 1..Len(asg) : asg[i].row = r
     THEN ApplyRow(ws[r], asg, r) ELSE ws[r]]

\* int(payload["kw"])
IntOf(v) ==
  IF v.k = "int" THEN [ok |-> TRUE, n |-> v.n]
  ELSE IF IsStr(v) THEN PyInt(v.s)
  ELSE [ok |-> FALSE, n |-> 0]

\* write_header: the assignments made, and ok = FALSE when it raised after
\* them.
write_header(payload) ==
  LET Raised(asg) == [ok |-> FALSE, asg |-> asg]
      Cells(kw, end, profile) ==
        IF payload.kw.k = "absent" \/ ~kw.ok THEN Raised(<<>>)
        ELSE IF payload.reportStartDe.k = "absent"
        THEN Raised(<<Asg("H", 1, IntV(kw.n))>>)
        ELSE IF payload.reportEnd.k = "absent" \/ ~end.ok
        THEN Raised(<<Asg("H", 1, IntV(kw.n)),
                      Asg("L", 1, payload.reportStartDe)>>)
        ELSE [ok |-> TRUE,
              asg |-> <<Asg("H", 1, IntV(kw.n)),
                        Asg("L", 1, payload.reportStartDe),
                        Asg("R", 1, DateOf(end)),
                        Asg("D", 3, Get(profile.name, EmptyStr)),
                        Asg("P", 3, Get(profile.vorname, EmptyStr)),
                        Asg("D", 5, Get(profile.arbeitsstaetteProjekte,
                                        EmptyStr)),
                        Asg("D", 6, Get(profile.artDerArbeit, EmptyStr))>>]
  IN Cells(IntOf(payload.kw), parse_iso_date(payload.reportEnd),
           payload.profile)

\* the loop of clear_and_write_date_row over all_week_dates[i..]
RECURSIVE DateRowFrom(_, _, _)
DateRowFrom(all_week_dates, segment_dates, i) ==
  IF i > Len(all_week_dates) THEN [ok |-> TRUE, asg |-> <<>>]
  ELSE IF all_week_dates[i] \notin segment_dates
  THEN DateRowFrom(all_week_dates, segment_dates, i + 1)
  ELSE LET Cell(d, rest) ==
             IF ~d.ok THEN [ok |-> FALSE, asg |-> <<>>]
             ELSE [ok |-> rest.ok,
                   asg |-> <<Asg(WEEKDAY_COLUMNS[isoweekday(d)],
                                 DATA_ROW_START - 1, IntV(d.d))>>
                             \o rest.asg]
       IN Cell(parse_iso_date(all_week_dates[i]),
               DateRowFrom(all_week_dates, segment_dates, i + 1))

clear_and_write_date_row(payload) ==
  LET Cleared(loop) ==
        [ok |-> loop.ok,
         asg |-> [i \in 1..Len(WEEKDAY_COLUMNS) |->
                    Asg(WEEKDAY_COLUMNS[i], DATA_ROW_START - 1, NoneV)]
                   \o loop.asg]
  IN Cleared(DateRowFrom(payload.allWeekDates,
                         SeqRange(payload.segmentDates), 1))

\* the body of the loop of clear_data_rows for one row
ClearRow(row) ==
  <<Asg("A", row, NoneV), Asg("E", row, NoneV), Asg("F", row, NoneV)>>
    \o [i \in 1..Len(WEEKDAY_COLUMNS) |-> Asg(WEEKDAY_COLUMNS[i], row, NoneV)]
    \o [i \in 1..Len(AncillaryColumns) |-> Asg(AncillaryColumns[i], row, NoneV)]

clear_data_rows(ws) ==
  [r \in DOMAIN ws |->
     IF r \in DATA_ROW_START..DATA_ROW_END
     THEN ApplyRow(ws[r], ClearRow(r), r) ELSE ws[r]]

\* the capacity counted without the last data row
max_rows_exclusive == DATA_ROW_END - DATA_ROW_START

max_rows == DATA_ROW_END - DATA_ROW_START + 1

truncated(rows) == IF Len(rows) - max_rows > 0 THEN Len(rows) - max_rows ELSE 0

rows_to_write(rows) ==
  SubSeq(rows, 1, IF Len(rows) < max_rows THEN Len(rows) ELSE max_rows)

\* the row counted from the row after the first data row
row_no_one_based(idx) == DATA_ROW_START + idx + 1

row_no(idx) == DATA_ROW_START + idx

\* weekday_col with the weekday taken as a 0-based index
weekday_col_zero_based(row_data) ==
  LET Col(iso, d) ==
        IF IsStr(iso) /\ d.ok THEN WEEKDAY_COLUMNS[(isoweekday(d) % 7) + 1]
        ELSE ""
      Date(iso) == Col(iso, parse_iso_date(iso))
  IN Date(Get(row_data.date, NoneV))

\* weekday_col of the row: "" stands for None
weekday_col(row_data) ==
  LET Col(iso, d) ==
        IF IsStr(iso) /\ d.ok THEN WEEKDAY_COLUMNS[isoweekday(d)] ELSE ""
      Date(iso) == Col(iso, parse_iso_date(iso))
  IN Date(Get(row_data.date, NoneV))

\* the pause cell G of the row
PauseAsg(row_data, r) ==
  LET Inferred(pause_auto_from_hours) ==
        IF IsNum(pause_auto_from_hours) /\ pause_auto_from_hours.n > 0
        THEN <<Asg("G", r, ToFloat(pause_auto_from_hours))>>
        ELSE <<>>
      Pause(pause_override, start_t, end_t, day_cell_value) ==
        IF IsNum(pause_override)
        THEN <<Asg("G", r, ToFloat(pause_override))>>
        ELSE IF start_t.k = "none" /\ end_t.k = "none"
                /\ IsNum(day_cell_value)
        THEN Inferred(infer_pause_from_net_hours(ToFloat(day_cell_value)))
        ELSE <<>>
  IN Pause(parse_decimal(Get(row_data.pauseOverride, EmptyStr)),
           parse_time_value(Get(row_data.beginn, EmptyStr)),
           parse_time_value(Get(row_data.ende, EmptyStr)),
           compute_day_cell_value(row_data))

\* the weekday hour cell of the row
marker(text) == IF Lower(Strip(text)) = <<"x">> THEN <<"x">> ELSE Strip(text)

DayAsg(row_data, r) ==
  LET Day(col, day_cell_value) ==
        IF col # "" /\ IsNum(day_cell_value) /\ day_cell_value.n >= 0
        THEN <<Asg(col, r, ToFloat(day_cell_value))>>
        ELSE IF col # "" /\ IsStr(day_cell_value)
                /\ Strip(day_cell_value.s) # <<>>
        THEN <<Asg(col, r, StrV(marker(day_cell_value.s)))>>
        ELSE <<>>
  IN Day(weekday_col(row_data), compute_day_cell_value(row_data))

OrEmpty(v) == IF v.k = "none" THEN EmptyStr ELSE v

\* the body of the loop of write_rows: the assignments for the record at
\* 0-based index idx
RowWrites(idx, row_data) ==
  LET Times(r, start_t, end_t) ==
        (IF start_t.k # "none" THEN <<Asg("E", r, start_t)>> ELSE <<>>)
          \o (IF end_t.k # "none" THEN <<Asg("F", r, end_t)>> ELSE <<>>)
      SmNum(sm_nr) == IF IsStr(sm_nr) THEN parse_decimal(sm_nr) ELSE sm_nr
      Cells(r) ==
        <<Asg("A", r, Get(row_data.siteNameOrt, EmptyStr))>>
          \o Times(r, parse_time_value(Get(row_data.beginn, EmptyStr)),
                   parse_time_value(Get(row_data.ende, EmptyStr)))
          \o PauseAsg(row_data, r)
          \o DayAsg(row_data, r)
          \o <<Asg("Q", r, Get(row_data.lohnType, EmptyStr)),
               Asg("R", r, Get(row_data.ausloese, EmptyStr)),
               Asg("S", r,
                   OrEmpty(parse_decimal(Get(row_data.zulage, EmptyStr)))),
               Asg("T", r, Get(row_data.projektnummer, EmptyStr)),
               Asg("U", r, Get(row_data.kabelschachtInfo, EmptyStr)),
               Asg("V", r, OrEmpty(SmNum(Get(row_data.smNr, EmptyStr)))),
               Asg("W", r, Get(row_data.bauleiter, EmptyStr)),
               Asg("X", r, Get(row_data.arbeitskollege, EmptyStr))>>
  IN Cells(row_no(idx))

\* the iterations of the loop of write_rows that assign into sheet row r,
\* performed in the order of the loop (todo: their 1-based positions)
RECURSIVE WriteInto(_, _, _, _)
WriteInto(rowvals, rows, todo, r) ==
  IF todo = {} THEN rowvals
  ELSE LET i == CHOOSE j \in todo : \A k \in todo : j <= k
       IN WriteInto(ApplyRow(rowvals, RowWrites(i - 1, rows[i]), r), rows,
                    todo \ {i}, r)

write_rows(ws, payload) ==
  LET Loop(rows) ==
        [ws |-> [r \in DOMAIN ws |->
                   WriteInto(ws[r], rows,
                             {i \in 1..Len(rows) : row_no(i - 1) = r}, r)],
         rows_written |-> Len(rows),
         rows_truncated |-> truncated(payload.rows)]
  IN Loop(rows_to_write(payload.rows))

\* the cells an assignment list touches, tagged with the function and the
\* record index that made them
Touched(op, idx, asg) ==
  {[op |-> op, idx |-> idx, col |-> asg[i].col, row |-> asg[i].row] :
     i \in 1..Len(asg)}

ClearTouched ==
  UNION {Touched("clear_data_rows", -1, ClearRow(r)) :
           r \in DATA_ROW_START..DATA_ROW_END}

WriteTouched(payload) ==
  LET rows == rows_to_write(payload.rows)
  IN UNION {Touched("write_rows", i - 1, RowWrites(i - 1, rows[i])) :
              i \in 1..Len(rows)}

\* the warning main() appends when rows were truncated
TruncationWarning(rows_truncated) ==
  <<"More than 40 lines for this report. Export truncated by ">>
    \o IntToStr(rows_truncated)
    \o <<" line(s) to fit Excel rows 10-49.">>

(***************************************************************************)
(* Inputs: day-records, payloads, templates and requests                   *)
(***************************************************************************)
MaxRows == 43
MaxSegments == 2

Row(date, site, beginn, ende, override, pause, zulage, smNr) ==
  [date |-> date, siteNameOrt |-> site, beginn |-> beginn, ende |-> ende,
   dayHoursOverride |-> override, pauseOverride |-> pause,
   lohnType |-> StrV(<<"S", "t", "d">>), ausloese |-> AbsentV, zulage |-> zulage,
   projektnummer |-> StrV(<<"P", "-", "1">>), kabelschachtInfo |-> NoneV,
   smNr |-> smNr, bauleiter |-> StrV(<<"M", "e", "i", "e", "r">>),
   arbeitskollege |-> AbsentV]

\* date, zulage and smNr of a day-record; wd is the calendar's ISO weekday
\* of the date (0: no valid date)
DateCase(date, wd, zulage, smNr) ==
  [date |-> date, wd |-> wd, zulage |-> zulage, smNr |-> smNr]

DateCases ==
  <<DateCase(StrV(<<"2", "0", "2", "4", "-", "0", "3", "-", "1", "8">>), 1, StrV(<<"1", "2", ",", "5", "0">>), StrV(<<"4", "7", "1", "1">>)),
    DateCase(StrV(<<"2", "0", "2", "4", "-", "1", "2", "-", "3", "1">>), 2, AbsentV, StrV(<<"A", "-", "1", "7">>)),
    DateCase(StrV(<<"2", "0", "2", "4", "-", "0", "3", "-", "2", "0">>), 3, StrV(<<>>), AbsentV),
    DateCase(StrV(<<"2", "0", "2", "4", "-", "0", "2", "-", "2", "9">>), 4, StrV(<<"a", "b", "c">>), NoneV),
    DateCase(StrV(<<"2", "0", "2", "5", "-", "0", "1", "-", "0", "3">>), 5, NumV(7 * Unit), NumV(12 * Unit)),
    DateCase(StrV(<<"2", "0", "0", "0", "-", "0", "1", "-", "0", "1">>), 6, NoneV, StrV(<<" ", "8", " ">>)),
    DateCase(StrV(<<"2", "0", "2", "3", "-", "1", "-", "1">>), 7, StrV(<<"1", ".", "5">>), StrV(<<>>)),
    DateCase(StrV(<<"2", "0", "2", "4", "-", "0", "2", "-", "3", "0">>), 0, StrV(<<"n", "a", "n">>), StrV(<<"4", "7", "1", "1">>)),
    DateCase(AbsentV, 0, StrV(<<"3">>), StrV(<<"x">>)),
    DateCase(StrV(<<"2", "0", ".", "0", "3", ".", "2", "0", "2", "4">>), 0, AbsentV, AbsentV)>>

\* beginn, ende, dayHoursOverride and pauseOverride of a day-record
HourCase(beginn, ende, override, pause) ==
  [beginn |-> beginn, ende |-> ende, override |-> override, pause |-> pause]

HourCases ==
  <<HourCase(StrV(<<"0", "8", ":", "0", "0">>), StrV(<<"1", "7", ":", "0", "0">>), AbsentV, AbsentV),
    HourCase(StrV(<<"2", "2", ":", "0", "0">>), StrV(<<"0", "6", ":", "0", "0">>), NoneV, AbsentV),
    HourCase(StrV(<<"0", "8", ":", "0", "0">>), StrV(<<"1", "4", ":", "0", "0">>), StrV(Sentinel), StrV(<<>>)),
    HourCase(StrV(<<"0", "7", ":", "0", "0">>), StrV(<<"1", "6", ":", "3", "0">>), AbsentV, NoneV),
    HourCase(StrV(<<"0", "7", ":", "0", "0">>), StrV(<<"1", "6", ":", "3", "5">>), AbsentV, AbsentV),
    HourCase(StrV(<<"0", "8", ":", "0", "0">>), StrV(<<"1", "7", ":", "0", "0">>), AbsentV, StrV(<<"1", ",", "2", "5">>)),
    HourCase(StrV(<<"0", "8", ":", "0", "0">>), StrV(<<"1", "7", ":", "0", "0">>), NoneV, StrV(<<"a", "b", "c">>)),
    HourCase(StrV(<<"0", "8", ":", "0", "0">>), StrV(<<"1", "7", ":", "0", "0">>), StrV(<<"7", ",", "5">>), AbsentV),
    HourCase(StrV(<<"0", "8", ":", "0", "0">>), StrV(<<"1", "7", ":", "0", "0">>), StrV(<<"x">>), AbsentV),
    HourCase(StrV(<<"0", "6", ":", "0", "0">>), StrV(<<"1", "2", ":", "0", "0">>), StrV(<<" ", "X", " ">>), StrV(<<"1">>)),
    HourCase(AbsentV, AbsentV, StrV(<<"8">>), AbsentV),
    HourCase(StrV(<<>>), StrV(<<>>), StrV(<<"5">>), AbsentV),
    HourCase(AbsentV, NoneV, StrV(<<"K">>), AbsentV),
    HourCase(StrV(<<"0", "8", ":", "0", "0">>), StrV(<<"1", "7", ":", "0", "0">>), StrV(<<>>), AbsentV),
    HourCase(StrV(<<"0", "8", ":", "0", "0">>), StrV(<<"1", "7", ":", "0", "0">>), StrV(<<"-", "1">>), AbsentV),
    HourCase(StrV(<<"0", "8", ":", "0", "0">>), StrV(<<"1", "2", ":", "0", "0">>), NumV(8 * Unit), AbsentV),
    HourCase(StrV(<<"8", ":", "5">>), StrV(<<"2", "5", ":", "0", "0">>), AbsentV, AbsentV),
    HourCase(StrV(<<"0", "8", "0", "0">>), StrV(<<"1", "7", ":", "0", "0">>), AbsentV, StrV(<<"0", ",", "5">>)),
    HourCase(StrV(<<"0", "9", ":", "0", "0">>), StrV(<<"0", "9", ":", "0", "0">>), AbsentV, AbsentV),
    HourCase(StrV(<<"0", "8", ":", "0", "0">>), StrV(<<"0", "8", ":", "3", "0">>), AbsentV, StrV(<<"1">>)),
    HourCase(StrV(<<"0", "8", ":", "0", "0">>), StrV(<<"1", "7", ":", "0", "0">>), StrV(<<" ", "n", "a", "n", " ">>), AbsentV),
    HourCase(StrV(<<"2", "3", ":", "3", "0">>), StrV(<<"0", "0", ":", "1", "5">>), StrV(<<" ", "_", "_", "A", "U", "T", "O", "_", "F", "R", "O", "M", "_", "T", "I", "M", "E", "_", "_", " ">>),
             AbsentV),
    HourCase(AbsentV, AbsentV, AbsentV, AbsentV),
    HourCase(StrV(<<"0", "6", ":", "0", "7">>), StrV(<<"1", "5", ":", "1", "0">>), AbsentV, NumV(Unit)),
    HourCase(AbsentV, AbsentV, StrV(<<"9", ",", "5">>), AbsentV),
    HourCase(NoneV, NoneV, StrV(<<"K">>), NumV(Unit \div 2)),
    HourCase(AbsentV, AbsentV, StrV(<<"5", ",", "7", "5">>), AbsentV)>>

\* the day-record at 1-based position i of the payload with offset b
RowAt(i, b) ==
  LET dc == DateCases[((i - 1) % Len(DateCases)) + 1]
      hc == HourCases[((i - 1 + b) % Len(HourCases)) + 1]
  IN Row(dc.date, StrV(<<"S">> \o IntToStr(i)), hc.beginn, hc.ende,
         hc.override, hc.pause, dc.zulage, dc.smNr)

Rows(n, b) == [i \in 1..n |-> RowAt(i, b)]

Profile(name) ==
  [name |-> name, vorname |-> StrV(<<"E", "v", "a">>),
   arbeitsstaetteProjekte |-> StrV(<<"N", "o", "r", "d">>), artDerArbeit |-> AbsentV]

Header(kw, reportEnd, segmentDates, allWeekDates, name) ==
  [kw |-> kw, reportStartDe |-> StrV(<<"1", "8", ".", "0", "3", ".", "2", "0", "2", "4">>), reportEnd |-> reportEnd,
   profile |-> Profile(name), segmentDates |-> segmentDates,
   allWeekDates |-> allWeekDates]

WeekDates ==
  <<StrV(<<"2", "0", "2", "4", "-", "0", "3", "-", "1", "8">>), StrV(<<"2", "0", "2", "4", "-", "0", "3", "-", "1", "9">>), StrV(<<"2", "0", "2", "4", "-", "0", "3", "-", "2", "0">>),
    StrV(<<"2", "0", "2", "4", "-", "0", "3", "-", "2", "1">>), StrV(<<"2", "0", "2", "4", "-", "0", "3", "-", "2", "2">>), StrV(<<"2", "0", "2", "4", "-", "0", "3", "-", "2", "3">>),
    StrV(<<"2", "0", "2", "4", "-", "0", "3", "-", "2", "4">>)>>

GoodHeader ==
  Header(IntV(12), StrV(<<"2", "0", "2", "4", "-", "0", "3", "-", "2", "4">>), SubSeq(WeekDates, 1, 5), WeekDates,
         StrV(<<"M", "u", "s", "t", "e", "r">>))

Headers ==
  <<GoodHeader,
    Header(StrV(<<" ", "1", "2", " ">>), StrV(<<"2", "0", "2", "4", "-", "0", "3", "-", "2", "4">>), SubSeq(WeekDates, 3, 7),
           WeekDates, AbsentV),
    Header(IntV(12), StrV(<<"2", "0", "2", "4", "-", "0", "3", "-", "3", "2">>), SubSeq(WeekDates, 1, 5), WeekDates,
           StrV(<<"M", "u", "s", "t", "e", "r">>)),
    Header(IntV(12), StrV(<<>>), SubSeq(WeekDates, 1, 5), WeekDates,
           StrV(<<"M", "u", "s", "t", "e", "r">>)),
    Header(IntV(12), StrV(<<"2", "0", "2", "4", "-", "0", "3", "-", "2", "4">>),
           <<StrV(<<"2", "0", "2", "4", "-", "0", "3", "-", "1", "8">>), StrV(<<"2", "0", "2", "4", "-", "0", "3", "-", "1", "x">>)>>,
           <<StrV(<<"2", "0", "2", "4", "-", "0", "3", "-", "1", "8">>), StrV(<<"2", "0", "2", "4", "-", "0", "3", "-", "1", "x">>)>>, StrV(<<"M", "u", "s", "t", "e", "r">>)),
    Header(IntV(12), StrV(<<"2", "0", "2", "4", "-", "0", "3", "-", "2", "4">>),
           <<StrV(<<"2", "0", "2", "4", "-", "0", "3", "-", "1", "8">>), StrV(<<"b", "a", "d">>)>>,
           <<StrV(<<"2", "0", "2", "4", "-", "0", "3", "-", "1", "8">>), StrV(<<"2", "0", "2", "4", "-", "0", "3", "-", "1", "x">>)>>, StrV(<<"M", "u", "s", "t", "e", "r">>)),
    Header(StrV(<<"K", "W", "1", "2">>), StrV(<<"2", "0", "2", "4", "-", "0", "3", "-", "2", "4">>), SubSeq(WeekDates, 1, 5),
           WeekDates, StrV(<<"M", "u", "s", "t", "e", "r">>))>>

Payload(h, rows) ==
  [kw |-> h.kw, reportStartDe |-> h.reportStartDe, reportEnd |-> h.reportEnd,
   profile |-> h.profile, segmentDates |-> h.segmentDates,
   allWeekDates |-> h.allWeekDates, rows |-> rows]

NoPayload == Payload(GoodHeader, <<>>)

\* workbooks: the names of the sheets and the cells of the sheet SheetName
Workbook(sheetnames, cells) == [sheetnames |-> sheetnames, cells |-> cells]

CellFormula(col, r) == FormulaV(<<"=", col>> \o IntToStr(r))

\* the template as authored: formulas in the pause column G and in the total
\* columns O and P of the data rows, nothing else
FreshCells ==
  [r \in SheetRows |->
     [c \in Columns |->
        IF c \in {"G", "O", "P"} /\ r >= DATA_ROW_START
        THEN CellFormula(c, r) ELSE NoneV]]

\* a template that still carries the values of an earlier report
UsedCells ==
  [r \in SheetRows |->
     [c \in Columns |->
        IF r >= DATA_ROW_START /\ c \in {"O", "P"} THEN CellFormula(c, r)
        ELSE IF r >= DATA_ROW_START /\ c = "G" /\ r % 2 = 1
        THEN CellFormula(c, r)
        ELSE IF c \in {"A", "S"} THEN StrV(<<"a", "l", "t">>)
        ELSE IF c \in {"E", "F"} THEN TimeV(7 * 60)
        ELSE NumV(2 * Unit)]]

FreshTemplate == Workbook({SheetName}, FreshCells)
UsedTemplate == Workbook({SheetName, "Notizen"}, UsedCells)
OtherTemplate == Workbook({"Tabelle1"}, FreshCells)
NoWorkbook == Workbook({}, FreshCells)

\* main() from write_header to write_rows: the sheet it leaves in memory
ExportOf(cells, payload) ==
  write_rows(
    clear_data_rows(
      Apply(Apply(cells, write_header(payload).asg),
            clear_and_write_date_row(payload).asg)),
    payload).ws

\* an earlier report, handed in as the template of the next one
EarlierPayload == Payload(GoodHeader, Rows(3, 5))
ReusedTemplate ==
  Workbook({SheetName}, ExportOf(FreshCells, EarlierPayload))

\* templateBase64 values: the encodings of the templates above and of bytes
\* that are no workbook, blank text, and text that is no base64
FreshB64 == StrV(<<"U", "E", "s", "D", "B", "A", "=", "=">>)
UsedB64 == StrV(<<"U", "E", "s", "D", "B", "B", "=", "=">>)
OtherB64 == StrV(<<"U", "E", "s", "D", "B", "C", "=", "=">>)
ReusedB64 == StrV(<<"U", "E", "s", "D", "B", "D", "=", "=">>)
JunkB64 == StrV(<<"A", "A", "A", "A">>)
BlankB64 == StrV(<<" ", " ">>)
BadB64 == StrV(<<"U", "E", "$", "D">>)

\* the workbook the decoded bytes hold
B64Decode(text) ==
  IF text = FreshB64.s THEN FreshTemplate
  ELSE IF text = UsedB64.s THEN UsedTemplate
  ELSE IF text = OtherB64.s THEN OtherTemplate
  ELSE IF text = ReusedB64.s THEN ReusedTemplate
  ELSE NoWorkbook

Segment(isDict, baseName, payloadIsDict, payload) ==
  [isDict |-> isDict, baseName |-> baseName, payloadIsDict |-> payloadIsDict,
   payload |-> payload]

Request(auth, isDict, fmt, templateBase64, templateFilename, segments, soffice) ==
  [auth |-> auth, isDict |-> isDict, format |-> fmt,
   templateBase64 |-> templateBase64,
   templateFilename |-> templateFilename, segments |-> segments,
   soffice |-> soffice]

ReportName == StrV(<<"report">>)
DefaultTemplateName == <<"template", ".xlsx">>

\* one segment, every length of the row list and every pairing of the date
\* and hour cases
RowRequests ==
  {Request(TRUE, TRUE, StrV(<<"x", "l", "s", "x">>), FreshB64, AbsentV,
           <<Segment(TRUE, ReportName, TRUE, Payload(GoodHeader, Rows(n, b)))>>,
           "disabled") :
     n \in 0..MaxRows, b \in 0..(Len(HourCases) - 1)}

\* one segment, every header and every template
HeaderRequests ==
  {Request(TRUE, TRUE, AbsentV, t, StrV(<<"vorlage", ".xlsx">>),
           <<Segment(TRUE, ReportName, TRUE, Payload(Headers[h], Rows(n, 0)))>>,
           "disabled") :
     n \in {1, max_rows + 1}, h \in 1..Len(Headers),
     t \in {FreshB64, UsedB64, OtherB64, ReusedB64, JunkB64}}

\* several segments whose file names may meet each other and the template's
SegmentChoices ==
  {Segment(TRUE, StrV(<<"a">>), TRUE, Payload(GoodHeader, Rows(1, 0))),
   Segment(TRUE, StrV(<<"template">>), TRUE, Payload(GoodHeader, Rows(2, 5))),
   Segment(TRUE, AbsentV, TRUE, Payload(Headers[2], Rows(1, 7))),
   Segment(TRUE, StrV(<<"a">>), FALSE, NoPayload),
   Segment(FALSE, AbsentV, FALSE, NoPayload)}

SegmentLists ==
  UNION {[1..k -> SegmentChoices] : k \in 1..MaxSegments}

SegmentRequests ==
  {Request(TRUE, TRUE, StrV(<<"x", "l", "s", "x">>), t, name, segs, "disabled") :
     t \in {FreshB64, OtherB64},
     name \in {AbsentV, StrV(<<"dir", "/", "template", ".xlsx">>),
               StrV(<<"a", ".json">>)},
     segs \in SegmentLists}

\* requests for a PDF, with and without a working converter on the worker
PdfRequests ==
  {Request(TRUE, TRUE, StrV(f), FreshB64, AbsentV, segs, env) :
     f \in {<<"P", "D", "F">>, <<"b", "o", "t", "h">>}, env \in {"disabled", "missing", "works"},
     segs \in [1..1 -> SegmentChoices]}

OneSegment ==
  <<Segment(TRUE, ReportName, TRUE, Payload(GoodHeader, Rows(1, 0)))>>

\* requests export_week turns away
RejectedRequests ==
  {Request(FALSE, TRUE, AbsentV, FreshB64, AbsentV, OneSegment,
           "disabled"),
   Request(TRUE, FALSE, AbsentV, FreshB64, AbsentV, OneSegment,
           "disabled"),
   Request(TRUE, TRUE, StrV(<<"d", "o", "c", "x">>), FreshB64, AbsentV,
           OneSegment, "disabled"),
   Request(TRUE, TRUE, AbsentV, AbsentV, AbsentV, OneSegment,
           "disabled"),
   Request(TRUE, TRUE, AbsentV, BlankB64, AbsentV, OneSegment,
           "disabled"),
   Request(TRUE, TRUE, AbsentV, BadB64, AbsentV, OneSegment,
           "disabled"),
   Request(TRUE, TRUE, AbsentV, FreshB64, AbsentV, <<>>,
           "disabled")}

Requests ==
  RowRequests \cup HeaderRequests \cup SegmentRequests \cup PdfRequests
    \cup RejectedRequests

(***************************************************************************)
(* The worker and the export script as one state machine.  File names are  *)
(* sequences of name parts ("template", ".xlsx"); the temporary directory  *)
(* is a function from file names to file contents.                         *)
(***************************************************************************)
VARIABLES
  body,      \* the request export_week received
  fs,        \* the files of the temporary directory
  idx,       \* enumerate index of the segment being processed
  wpc,       \* where export_week is
  reports,   \* the reports list
  response,  \* what export_week returned
  ppc,       \* where main() of the export script is
  wb,        \* the workbook main() holds in memory
  writes,    \* the cell assignments main() made to the sheet
  proc,      \* the finished subprocess: return code and printed result
  net,       \* a net-hours figure handed to infer_pause_from_net_hours
  inferred   \* what infer_pause_from_net_hours returned for it

vars ==
  <<body, fs, idx, wpc, reports, response, ppc, wb, writes, proc, net,
    inferred>>

File(t, w, payload) == [t |-> t, wb |-> w, payload |-> payload]
XlsxFile(w) == File("xlsx", w, NoPayload)
JsonFile(payload) == File("json", NoWorkbook, payload)
PdfFile(w) == File("pdf", w, NoPayload)

NoFiles == [n \in {} |-> XlsxFile(NoWorkbook)]

\* path.write_bytes / write_text / wb.save
WriteFile(files, name, file) ==
  [n \in (DOMAIN files) \cup {name} |-> IF n = name THEN file ELSE files[n]]

NoResponse == [status |-> 0, error |-> "", reports |-> <<>>]
\* _json_error
JsonError(message, status) ==
  [status |-> status, error |-> message, reports |-> <<>>]

NoResult ==
  [rows_written |-> 0, rows_truncated |-> 0, warnings |-> <<>>]
NoProc == [returncode |-> -1, stderr |-> "", result |-> NoResult]
Failed(message) == [returncode |-> 1, stderr |-> message, result |-> NoResult]

Base64Chars ==
  SeqRange(UpperChars) \cup SeqRange(LowerChars) \cup SeqRange(DigitChars)
    \cup {"+", "/"}

\* base64.b64decode(text, validate=True) succeeds
B64Valid(text) ==
  LET n == Len(text)
      pad == IF n >= 2 /\ text[n] = "=" /\ text[n - 1] = "=" THEN 2
             ELSE IF n >= 1 /\ text[n] = "=" THEN 1 ELSE 0
  IN /\ n % 4 = 0
     /\ \A i \in 1..(n - pad) : text[i] \in Base64Chars

\* Path(name).name: what follows the last "/"
RECURSIVE PathName(_)
PathName(name) ==
  IF \E i \in 1..Len(name) : name[i] = "/" THEN PathName(Tail(name)) ELSE name

fmt == Lower(IF body.format.k \in {"absent", "none"} \/ body.format.s = <<>>
             THEN <<"x", "l", "s", "x">> ELSE body.format.s)

template_filename ==
  IF body.templateFilename.k \in {"absent", "none"}
       \/ body.templateFilename.s = <<>>
  THEN DefaultTemplateName ELSE body.templateFilename.s

template_path == PathName(template_filename)

segment == body.segments[idx + 1]

base_name ==
  IF segment.baseName.k \in {"absent", "none"} \/ segment.baseName.s = <<>>
  THEN <<"segment_">> \o IntToStr(idx) ELSE segment.baseName.s

payload_path == base_name \o <<".json">>
xlsx_path == base_name \o <<".xlsx">>
pdf_path == base_name \o <<".pdf">>

Init ==
  /\ body \in Requests
  /\ fs = NoFiles
  /\ idx = 0
  /\ wpc = "request"
  /\ reports = <<>>
  /\ response = NoResponse
  /\ ppc = "idle"
  /\ wb = NoWorkbook
  /\ writes = {}
  /\ proc = NoProc
  /\ net = NoneV
  /\ inferred = NoneV

\* export_week returns: the temporary directory is removed
Return(r) ==
  /\ response' = r
  /\ wpc' = "responded"
  /\ fs' = NoFiles

\* export_week up to the loop over the segments
ReceiveRequest ==
  /\ wpc = "request"
  /\ IF ~body.auth THEN Return(JsonError("Unauthorized", 401))
     ELSE IF ~body.isDict THEN Return(JsonError("Invalid JSON body", 400))
     ELSE IF fmt \notin {<<"x", "l", "s", "x">>, <<"p", "d", "f">>,
                         <<"b", "o", "t", "h">>}
     THEN Return(JsonError("Invalid format", 400))
     ELSE IF ~IsStr(body.templateBase64) \/ Strip(body.templateBase64.s) = <<>>
     THEN Return(JsonError("templateBase64 is required", 400))
     ELSE IF body.segments = <<>>
     THEN Return(JsonError("segments is required", 400))
     ELSE IF ~B64Valid(body.templateBase64.s)
     THEN Return(JsonError("templateBase64 is invalid", 400))
     ELSE /\ fs' = WriteFile(fs, template_path, XlsxFile(B64Decode(body.templateBase64.s)))
          /\ wpc' = "segment"
          /\ UNCHANGED response
  /\ UNCHANGED <<body, idx, reports, ppc, wb, writes, proc, net, inferred>>

\* the head of the loop body: the payload file is written and the script is
\* started
BeginSegment ==
  /\ wpc = "segment"
  /\ idx < Len(body.segments)
  /\ IF ~segment.isDict
     THEN /\ Return(JsonError("Invalid segment at index", 400))
          /\ UNCHANGED <<ppc, wb, writes, proc>>
     ELSE IF ~segment.payloadIsDict
     THEN /\ Return(JsonError("Missing payload for segment", 400))
          /\ UNCHANGED <<ppc, wb, writes, proc>>
     ELSE /\ fs' = WriteFile(fs, payload_path, JsonFile(segment.payload))
          /\ wpc' = "exporting"
          /\ ppc' = "start"
          /\ wb' = NoWorkbook
          /\ writes' = {}
          /\ proc' = NoProc
          /\ UNCHANGED response
  /\ UNCHANGED <<body, idx, reports, net, inferred>>

\* the extensions openpyxl's load_workbook accepts
WorkbookSuffixes == {".xlsx", ".xlsm", ".xltx", ".xltm"}

\* load_workbook(template_path) succeeds
Loadable(files, name) ==
  /\ name \in DOMAIN files
  /\ name[Len(name)] \in WorkbookSuffixes
  /\ files[name].t = "xlsx"
  /\ files[name].wb.sheetnames # {}

\* any workbook passes, as if the sheet were created when missing
HasAnySheet(w) == w.sheetnames # {}

\* "Wochenbericht" in wb.sheetnames
HasSheet(w) == SheetName \in w.sheetnames

Exit(p) ==
  /\ ppc' = "exit"
  /\ proc' = p

payload == fs[payload_path].payload

\* main(): the payload file is read and the template is loaded
ScriptLoad ==
  /\ wpc = "exporting"
  /\ ppc = "start"
  /\ IF ~Loadable(fs, template_path)
     THEN Exit(Failed("load_workbook failed")) /\ UNCHANGED wb
     ELSE IF ~HasSheet(fs[template_path].wb)
     THEN Exit(Failed("Sheet 'Wochenbericht' not found in template"))
          /\ UNCHANGED wb
     ELSE /\ wb' = fs[template_path].wb
          /\ ppc' = "loaded"
          /\ UNCHANGED proc
  /\ UNCHANGED <<body, fs, idx, wpc, reports, response, writes, net, inferred>>

\* a function of the script that assigns cells and may raise after some of
\* them
Assign(op, r, next) ==
  /\ wb' = [wb EXCEPT !.cells = Apply(@, r.asg)]
  /\ writes' = writes \cup Touched(op, -1, r.asg)
  /\ IF r.ok THEN ppc' = next /\ UNCHANGED proc
     ELSE Exit(Failed("Traceback"))

ScriptWriteHeader ==
  /\ wpc = "exporting"
  /\ ppc = "loaded"
  /\ Assign("write_header", write_header(payload), "header")
  /\ UNCHANGED <<body, fs, idx, wpc, reports, response, net, inferred>>

ScriptDateRow ==
  /\ wpc = "exporting"
  /\ ppc = "header"
  /\ Assign("clear_and_write_date_row", clear_and_write_date_row(payload),
            "daterow")
  /\ UNCHANGED <<body, fs, idx, wpc, reports, response, net, inferred>>

ScriptClearDataRows ==
  /\ wpc = "exporting"
  /\ ppc = "daterow"
  /\ wb' = [wb EXCEPT !.cells = clear_data_rows(@)]
  /\ writes' = writes \cup ClearTouched
  /\ ppc' = "cleared"
  /\ UNCHANGED <<body, fs, idx, wpc, reports, response, proc, net, inferred>>

ScriptWriteRows ==
  /\ wpc = "exporting"
  /\ ppc = "cleared"
  /\ LET Returned(r) ==
           /\ wb' = [wb EXCEPT !.cells = r.ws]
           /\ proc' = [proc EXCEPT
                         !.result.rows_written = r.rows_written,
                         !.result.rows_truncated = r.rows_truncated]
     IN Returned(write_rows(wb.cells, payload))
  /\ writes' = writes \cup WriteTouched(payload)
  /\ ppc' = "written"
  /\ UNCHANGED <<body, fs, idx, wpc, reports, response, net, inferred>>

\* main(): the workbook is saved and the result is printed
ScriptSave ==
  /\ wpc = "exporting"
  /\ ppc = "written"
  /\ fs' = WriteFile(fs, xlsx_path, XlsxFile(wb))
  /\ Exit([returncode |-> 0, stderr |-> "",
           result |->
             [proc.result EXCEPT !.warnings =
                IF proc.result.rows_truncated # 0
                THEN <<TruncationWarning(proc.result.rows_truncated)>>
                ELSE <<>>]])
  /\ UNCHANGED <<body, idx, wpc, reports, response, wb, writes, net, inferred>>

\* _try_pdf_convert: the PDF file it produced, if any, and its warning
PdfWanted == fmt \in {<<"p", "d", "f">>, <<"b", "o", "t", "h">>}
PdfMade == PdfWanted /\ body.soffice = "works"
PdfWarning ==
  IF ~PdfWanted \/ PdfMade THEN <<>>
  ELSE IF body.soffice = "disabled"
  THEN <<<<"PDF export disabled on worker.">>>>
  ELSE <<<<"PDF export requires LibreOffice (soffice) on worker.">>>>

\* the rest of the loop body, after the script has ended
FinishSegment ==
  /\ wpc = "exporting"
  /\ ppc = "exit"
  /\ IF proc.returncode # 0
     THEN /\ Return(JsonError(proc.stderr, 500))
          /\ UNCHANGED <<idx, reports>>
     ELSE LET files == IF PdfMade
                       THEN WriteFile(fs, pdf_path, PdfFile(fs[xlsx_path].wb))
                       ELSE fs
          IN /\ fs' = files
             /\ reports' = Append(reports,
                  [baseName |-> base_name,
                   warnings |-> proc.result.warnings \o PdfWarning,
                   rowsWritten |-> proc.result.rows_written,
                   rowsTruncated |-> proc.result.rows_truncated,
                   xlsx |-> files[xlsx_path],
                   pdf |-> IF PdfMade THEN files[pdf_path]
                           ELSE File("none", NoWorkbook, NoPayload)])
             /\ idx' = idx + 1
             /\ wpc' = "segment"
             /\ UNCHANGED response
  /\ ppc' = "idle"
  /\ UNCHANGED <<body, wb, writes, proc, net, inferred>>

\* the loop is over: the reports are returned
Respond ==
  /\ wpc = "segment"
  /\ idx = Len(body.segments)
  /\ Return([status |-> 200, error |-> "", reports |-> reports])
  /\ UNCHANGED <<body, idx, reports, ppc, wb, writes, proc, net, inferred>>

Next ==
  \/ ReceiveRequest
  \/ BeginSegment
  \/ ScriptLoad
  \/ ScriptWriteHeader
  \/ ScriptDateRow
  \/ ScriptClearDataRows
  \/ ScriptWriteRows
  \/ ScriptSave
  \/ FinishSegment
  \/ Respond

Spec == Init /\ [][Next]_vars

(***************************************************************************)
(* infer_pause_from_net_hours on its own: every net-hours figure with two  *)
(* decimals from -NetBelow/100 to NetAbove/100, and None.                  *)
(***************************************************************************)
NetBelow == 100
NetAbove == 1200
Pending == Val("pending", <<>>, 0)

InitInfer ==
  /\ body = Request(TRUE, TRUE, AbsentV, FreshB64, AbsentV, OneSegment,
                    "disabled")
  /\ fs = NoFiles
  /\ idx = 0
  /\ wpc = "responded"
  /\ reports = <<>>
  /\ response = NoResponse
  /\ ppc = "idle"
  /\ wb = NoWorkbook
  /\ writes = {}
  /\ proc = NoProc
  /\ net \in {NumV(h * (Unit \div 100)) : h \in (-NetBelow)..NetAbove}
             \cup {NoneV}
  /\ inferred = Pending

Infer ==
  /\ inferred = Pending
  /\ inferred' = infer_pause_from_net_hours(net)
  /\ UNCHANGED <<body, fs, idx, wpc, reports, response, ppc, wb, writes,
                 proc, net>>

NextInfer == Infer

SpecInfer == InitInfer /\ [][NextInfer]_vars

(***************************************************************************)
(* Properties                                                              *)
(***************************************************************************)
Min2(a, b) == IF a < b THEN a ELSE b
Max2(a, b) == IF a > b THEN a ELSE b

\* main() has run write_rows for the current segment
Written ==
  /\ wpc = "exporting"
  /\ ppc = "written" \/ (ppc = "exit" /\ proc.returncode = 0)

\* main() has ended normally for the current segment
Exported == wpc = "exporting" /\ ppc = "exit" /\ proc.returncode = 0

\* the day-records of the current segment
InputRows == segment.payload.rows

\* the template the request carries
Decoded == B64Decode(body.templateBase64.s)

\* the calendar's ISO weekday of the record's date, 0 without a valid date
WeekdayOf(row) ==
  DateCases[CHOOSE j \in 1..Len(DateCases) : DateCases[j].date = row.date].wd

\* the count a truncation warning names
NamedCount(warning) ==
  IF Len(warning) >= 3 /\ AllDigits(SubSeq(warning, 2, Len(warning) - 1))
  THEN DigitsVal(SubSeq(warning, 2, Len(warning) - 1)) ELSE -1

\* C1: for N day-records the result has rows_written = min(N, 40) and
\* rows_truncated = max(0, N - 40), which add up to N; the warnings list
\* is non-empty exactly when rows were truncated, and its warning then names
\* that count.
C1_Truncation ==
  Exported =>
    LET N == Len(InputRows)
        r == proc.result
    IN /\ r.rows_written = Min2(N, 40)
       /\ r.rows_truncated = Max2(0, N - 40)
       /\ r.rows_written + r.rows_truncated = N
       /\ (r.warnings # <<>>) <=> (r.rows_truncated > 0)
       /\ r.rows_truncated > 0 =>
            /\ Len(r.warnings) = 1
            /\ NamedCount(r.warnings[1]) = r.rows_truncated

C1_Witness ==
  /\ Exported
  /\ Len(InputRows) = 43
  /\ proc.result.rows_written = 40
  /\ proc.result.rows_truncated = 3
  /\ NamedCount(proc.result.warnings[1]) = 3

\* C2: the record at 0-based index i < 40 is written to sheet row 10 + i
\* and to no other row, in input order; records at index i >= 40 cause no
\* cell write; write_rows and clear_data_rows write no cell outside rows
\* 10..49.
C2_Positional ==
  Written =>
    LET N == Len(InputRows)
    IN /\ \A w \in writes :
            w.op = "write_rows" =>
              w.idx \in 0..39 /\ w.idx < N /\ w.row = 10 + w.idx
       /\ \A w \in writes :
            w.op \in {"write_rows", "clear_data_rows"} => w.row \in 10..49
       /\ \A i \in 0..(Min2(N, 40) - 1) :
            /\ wb.cells[10 + i]["A"] = Get(InputRows[i + 1].siteNameOrt, EmptyStr)
            /\ \E w \in writes : w.op = "write_rows" /\ w.idx = i
       /\ \A r \in (10 + Min2(N, 40))..49 : wb.cells[r]["A"] = NoneV
       /\ wb.cells[50] = Decoded.cells[50]

C2_Witness ==
  /\ Written
  /\ Len(InputRows) = 43
  /\ wb.cells[10]["A"] = StrV(<<"S", "1">>)
  /\ wb.cells[49]["A"] = StrV(<<"S", "4", "0">>)
  /\ InputRows[2].date = StrV(<<"2", "0", "2", "4", "-", "1", "2", "-", "3", "1">>)
  /\ InputRows[3].date = StrV(<<"2", "0", "2", "4", "-", "0", "3", "-", "2", "0">>)

\* the weekday hour cell of the record at 1-based position i
DayCell(i) == wb.cells[9 + i][WEEKDAY_COLUMNS[WeekdayOf(InputRows[i])]]

\* the override as a value: a decimal, or the text passed through
OverrideValue(o) == IF IsStr(o) THEN parse_decimal(o) ELSE o

\* C3 as stated: for every day-record whose dayHoursOverride is present,
\* non-null and not the sentinel, whatever beginn, ende and pauseOverride
\* are, the record's weekday hour cell holds exactly the override value.
C3_OverrideAlwaysWritten ==
  Written =>
    \A i \in 1..Min2(Len(InputRows), 40) :
      LET o == InputRows[i].dayHoursOverride
      IN (o.k \notin {"absent", "none"} /\ o # StrV(Sentinel)
            /\ WeekdayOf(InputRows[i]) # 0)
           => DayCell(i) = ToFloat(OverrideValue(o))

\* the override counts: a non-null value that is not blank text and not the
\* sentinel, compared after trimming
Effective(o) ==
  IF IsStr(o) THEN Strip(o.s) # <<>> /\ Strip(o.s) # Sentinel
  ELSE o.k \notin {"absent", "none"}

\* what the writer puts into the weekday hour cell for a resolved value
CellFor(v) ==
  IF IsNum(v) THEN (IF v.n >= 0 THEN ToFloat(v) ELSE NoneV)
  ELSE IF IsStr(v) /\ v.s \in {<<"x">>, <<"X">>} THEN StrV(<<"x">>)
  ELSE IF IsStr(v) /\ v.s # <<>> THEN v
  ELSE NoneV

\* C3 (amended): for every day-record whose dayHoursOverride is a non-null
\* value other than blank text or the sentinel (after trimming), whatever
\* beginn, ende and pauseOverride are, the resolved day value is the override
\* itself (its decimal value, or its trimmed text) and the weekday hour cell
\* holds that value as a non-negative number or as text ("x" for "x"/"X"),
\* and stays empty when it is negative or the record has no valid date:
\* never a time-derived value.
C3_OverrideWins ==
  Written =>
    \A i \in 1..Min2(Len(InputRows), 40) :
      LET o == InputRows[i].dayHoursOverride
          v == OverrideValue(IF IsStr(o) THEN StrV(Strip(o.s)) ELSE o)
      IN Effective(o) =>
           /\ compute_day_cell_value(InputRows[i]) = v
           /\ WeekdayOf(InputRows[i]) # 0 => DayCell(i) = CellFor(v)
           /\ WeekdayOf(InputRows[i]) = 0 =>
                \A k \in 1..7 : wb.cells[9 + i][WEEKDAY_COLUMNS[k]] = NoneV

C3_Witness ==
  /\ Written
  /\ \E i \in 1..Min2(Len(InputRows), 40) :
       /\ InputRows[i].dayHoursOverride = StrV(<<"7", ",", "5">>)
       /\ parse_time_value(InputRows[i].beginn) = TimeV(8 * 60)
       /\ parse_time_value(InputRows[i].ende) = TimeV(17 * 60)
       /\ WeekdayOf(InputRows[i]) = 3
       /\ wb.cells[9 + i]["J"] = NumV(75 * (Unit \div 10))

\* the multiple of a hundredth next to n ticks
Nearest(n) == CHOOSE r \in {n - 1, n, n + 1} : r % (Unit \div 100) = 0

\* gross - d of the claim, in ticks: s and e are minutes of the day, po the
\* parsed pauseOverride
NetOf(s, e, po) ==
  LET minutes == (e - s) % 1440
      gross == (minutes * Unit) \div 60
      d == IF IsNum(po) THEN ToFloat(po).n
           ELSE IF minutes > 570 THEN (75 * Unit) \div 100
           ELSE IF minutes > 360 THEN (50 * Unit) \div 100
           ELSE 0
  IN Nearest(gross - d)

\* C4: for every day-record with no effective dayHoursOverride whose beginn
\* and ende both parse, the resolved day value is gross - d rounded to two
\* decimals, gross = ((end - start) mod 1440) / 60 and d the pauseOverride
\* when it is a number, else 0.75 if gross > 9.5, 0.5 if 6 < gross <= 9.5,
\* 0 if gross <= 6; 08:00-17:00 without overrides gives 8.5.  The value is
\* what the weekday hour cell holds when it is not negative.
C4_TimeDerived ==
  Written =>
    \A i \in 1..Min2(Len(InputRows), 40) :
      LET row == InputRows[i]
          s == parse_time_value(Get(row.beginn, EmptyStr))
          e == parse_time_value(Get(row.ende, EmptyStr))
          po == parse_decimal(Get(row.pauseOverride, EmptyStr))
          net100 == NetOf(s.n, e.n, po)
      IN (~Effective(row.dayHoursOverride) /\ s.k = "time" /\ e.k = "time") =>
           /\ compute_day_cell_value(row) = NumV(net100)
           /\ (WeekdayOf(row) # 0 /\ net100 >= 0) => DayCell(i) = NumV(net100)
           /\ (s.n = 8 * 60 /\ e.n = 17 * 60 /\ ~IsNum(po)) =>
                net100 = 85 * (Unit \div 10)

C4_Witness ==
  /\ Written
  /\ \E i \in 1..Min2(Len(InputRows), 40) :
       /\ InputRows[i].beginn = StrV(<<"2", "2", ":", "0", "0">>)
       /\ InputRows[i].ende = StrV(<<"0", "6", ":", "0", "0">>)
       /\ InputRows[i].dayHoursOverride = NoneV
       /\ WeekdayOf(InputRows[i]) = 1
       /\ wb.cells[9 + i]["H"] = NumV(75 * (Unit \div 10))

\* the automatic break for g hundredths of gross hours, in hundredths
StepBreak(g) == IF g > 950 THEN 75 ELSE IF g > 600 THEN 50 ELSE 0

\* the candidates c for which n + c maps back to c, all in hundredths
Consistent(n) == {c \in {0, 50, 75} : StepBreak(n + c) = c}

Least(S) == CHOOSE x \in S : \A y \in S : x <= y

\* C5: infer_pause_from_net_hours(n) is the smallest candidate among 0, 0.5
\* and 0.75 for which the automatic break of n + c is c, and no break when
\* there is none; it is 0.5 for n = 8.0 and 0 for n = 5.0.
C5_SmallestConsistent ==
  (inferred # Pending /\ net.k = "num") =>
    LET n == net.n \div (Unit \div 100)
    IN /\ IF Consistent(n) = {} THEN inferred = NoneV
          ELSE inferred = NumV(Least(Consistent(n)) * (Unit \div 100))
       /\ n = 800 => inferred = NumV(Unit \div 2)
       /\ n = 500 => inferred = NumV(0)

C5_Witness ==
  /\ inferred = NumV(0)
  /\ net = NumV(575 * (Unit \div 100))
  /\ Consistent(575) = {0, 50}

\* C6 as stated: every segment's export loads exactly the decoded template.
C6_TemplateNeverModified ==
  (wpc = "exporting" /\ ppc = "loaded") => wb = Decoded

\* the columns of a data row the export can write
WriteSetColumns ==
  {"A", "E", "F", "G"} \cup SeqRange(WEEKDAY_COLUMNS)
    \cup SeqRange(AncillaryColumns)

\* C7 as stated: exporting a payload onto a sheet that holds an earlier
\* export gives, in every cell of rows 10..49 the export can write, the
\* value that exporting it onto the fresh template gives, and leaves the
\* other cells of these rows as they were.
C7_NoStaleValues ==
  (Written /\ body.templateBase64 = ReusedB64) =>
    \A r \in 10..49 :
      /\ \A c \in WriteSetColumns :
           wb.cells[r][c] = ExportOf(FreshCells, segment.payload)[r][c]
      /\ \A c \in Columns \ WriteSetColumns :
           wb.cells[r][c] = Decoded.cells[r][c]

\* C8 as stated: with a template that loads and a week number that is one,
\* a malformed date, time or decimal string anywhere in the payload does not
\* make the export fail.
C8_MalformedNeverFails ==
  (wpc = "exporting" /\ ppc = "exit" /\ wb # NoWorkbook
     /\ IntOf(segment.payload.kw).ok)
    => proc.returncode = 0

\* the template is a workbook without the sheet "Wochenbericht"
SheetMissing == Decoded.sheetnames # {} /\ SheetName \notin Decoded.sheetnames

\* C9: without a sheet "Wochenbericht" in the template the export fails
\* before any cell is written, creates no sheet and saves no output file,
\* and the worker answers with one error and no reports; no response is a
\* partial success.
C9_MissingSheetFailsFast ==
  /\ (SheetMissing /\ wpc = "exporting" /\ ppc # "start") =>
       /\ ppc = "exit"
       /\ proc.returncode # 0
       /\ writes = {}
       /\ wb = NoWorkbook
       /\ \A n \in DOMAIN fs :
            fs[n].t = "xlsx" => n = template_path /\ fs[n].wb = Decoded
  /\ (SheetMissing /\ wpc = "responded") =>
       /\ response.status # 200
       /\ response.error # ""
       /\ response.reports = <<>>
  /\ wpc = "responded" =>
       \/ response.status = 200 /\ Len(response.reports) = Len(body.segments)
       \/ response.status # 200 /\ response.reports = <<>>

C9_Witness ==
  /\ wpc = "responded"
  /\ SheetMissing
  /\ response.status = 500
  /\ response.error = "Sheet 'Wochenbericht' not found in template"
  /\ writes = {}

\* C10: of the seven weekday cells of a written record's row, write_rows
\* writes at most one, the one of the ISO weekday of the record's date: the
\* resolved value as a number when it is a non-negative number, "x" when it
\* is the text "x" or "X", other non-empty text verbatim; nothing when the
\* value is absent, negative or empty text or the date is absent or invalid.
C10_WeekdayCell ==
  Written =>
    LET dayWrites ==
          {w \in writes :
             w.op = "write_rows" /\ w.col \in SeqRange(WEEKDAY_COLUMNS)}
    IN \A i \in 1..Min2(Len(InputRows), 40) :
         LET wd == WeekdayOf(InputRows[i])
             touched == {w.col : w \in {x \in dayWrites : x.idx = i - 1}}
             expected ==
               IF wd = 0 THEN NoneV
               ELSE CellFor(compute_day_cell_value(InputRows[i]))
         IN /\ Cardinality(touched) <= 1
            /\ touched = IF expected = NoneV THEN {} ELSE {WEEKDAY_COLUMNS[wd]}
            /\ \A k \in 1..7 :
                 wb.cells[9 + i][WEEKDAY_COLUMNS[k]] =
                   IF k = wd THEN expected ELSE NoneV

C10_Witness ==
  /\ Written
  /\ \E i \in 1..Min2(Len(InputRows), 40) :
       /\ InputRows[i].dayHoursOverride = StrV(<<" ", "X", " ">>)
       /\ InputRows[i].date = StrV(<<"2", "0", "2", "3", "-", "1", "-", "1">>)
       /\ wb.cells[9 + i]["N"] = StrV(<<"x">>)
       /\ \A c \in {"H", "I", "J", "K", "L", "M"} : wb.cells[9 + i][c] = NoneV

====
